---- MODULE Spec2Model ----
(***************************************************************************)
(* Model of maps4fs: Map.generate (generator/map.py) driving the           *)
(* components of a game, and the Background component                      *)
(* (generator/background.py): water mask compositing, depth subtraction,   *)
(* map cutout and mesh triangulation.  Rasters are sequences of rows,      *)
(* indexed from 1; pixel values are naturals of the dtype's width.         *)
(***************************************************************************)
EXTENDS Integers, Sequences, FiniteSets, TLC

VARIABLES
    \* ---- Map (generator/map.py) ----
    idx,            \* position of the loop over game.components (1-based)
    mpc,            \* where Map.generate is: construct, process, done, failed
    components,     \* Map.components
    constructed,    \* component classes whose constructor was called
    processed,      \* component classes whose process() was entered
    log,            \* logger.error records written by Map.generate
    error,          \* the exception generate terminated with, or NoError
    \* ---- settings and inputs of the run ----
    cfg,            \* map.dem_settings, map.background_settings, the texture schema
    custom_background,  \* raster at map.custom_background_path, NoFile if None
    dtm,            \* elevation raster the DEM provider delivers
    \* ---- Background (generator/background.py) ----
    bpc,            \* where Background.process is
    background_paths,       \* layer images the classifier returned
    water_resources_path,   \* TRUE when self.water_resources_path is set
    dem_constructed,        \* self.dem exists
    files,          \* rasters on disk
    meshes,         \* meshes on disk
    \* ---- direct calls of the raster/mesh functions ----
    fin,            \* arguments of the call
    fout            \* its result

vars == <<idx, mpc, components, constructed, processed, log, error, cfg,
          custom_background, dtm, bpc, background_paths, water_resources_path,
          dem_constructed, files, meshes, fin, fout>>

mapVars == <<idx, mpc, components, constructed, processed, log, error>>
bgVars == <<bpc, background_paths, water_resources_path, dem_constructed, files, meshes>>
inVars == <<cfg, custom_background, dtm>>
fnVars == <<fin, fout>>

(***************************************************************************)
(* Bounds of the model and constants of the program.                       *)
(***************************************************************************)
MapSize == 2            \* map_size of the run
MaxDepth == 2           \* largest dem_settings.water_depth
MaxLayers == 2          \* number of background layers the classifier returns
MaxResize == 2          \* largest background_settings.resize_factor
MaxSide == 3            \* largest side of the rasters of the direct calls
MaxHoles == 2           \* pixels of such a raster that differ from the rest
MaxCalls == 2           \* calls of subtraction on one raster
LongSide == 13          \* side of the rasters of the runs that build the water meshes
BACKGROUND_DISTANCE == 1    \* Parameters.BACKGROUND_DISTANCE, scaled down
U16 == 65536            \* number of values of a 16 bit DEM sample
WATER == 255            \* value of a water pixel in the 8 bit water mask
U8Max == 255            \* largest value of an 8 bit sample

NoFile == <<>>
NoError == [component |-> "", phase |-> ""]
NoMesh == [exists |-> FALSE, rows |-> 0, cols |-> 0, vertices |-> <<>>, faces |-> <<>>]

Min(a, b) == IF a < b THEN a ELSE b

Rows(img) == Len(img)
Cols(img) == IF Len(img) = 0 THEN 0 ELSE Len(img[1])
MkRaster(r, c, F(_, _)) == [i \in 1..r |-> [j \in 1..c |-> F(i, j)]]

\* F applied to the value of v (v is evaluated once).
With(v, F(_)) == CHOOSE y \in {F(x) : x \in {v}} : TRUE
Pixels(img) == (1..Rows(img)) \X (1..Cols(img))

SetMax(S) == IF S = {} THEN 0
             ELSE LET x == CHOOSE y \in S : \A w \in S : w <= y IN x
RasterMax(img) == SetMax({img[p[1]][p[2]] : p \in Pixels(img)})
RasterMin(img) == 0 - SetMax({0 - img[p[1]][p[2]] : p \in Pixels(img)})

(***************************************************************************)
(* ImageComponent.cut_out_np: the square of side 2*half_size around the    *)
(* centre (shape // 2), returned (return_cutout) or zeroed (set_zeros).    *)
(***************************************************************************)
CutRange(n, half_size) == ((n \div 2) - half_size + 1)..((n \div 2) + half_size)


CutOutReturn(img, half_size) ==
    LET r0 == (Rows(img) \div 2) - half_size
        c0 == (Cols(img) \div 2) - half_size
    IN  MkRaster(2 * half_size, 2 * half_size, LAMBDA i, j : img[r0 + i][c0 + j])

CutOutZeros(img, half_size) ==
    MkRaster(Rows(img), Cols(img),
             LAMBDA i, j : IF i \in CutRange(Rows(img), half_size)
                              /\ j \in CutRange(Cols(img), half_size)
                           THEN 0 ELSE img[i][j])

(***************************************************************************)
(* cv2.resize with INTER_LINEAR.  A destination index d (0-based) reads    *)
(* the source at ((2d+1)*sn - sd) / (2*sd) for the scale sn/sd, clamped to *)
(* the source; the result is rounded to the nearest integer.               *)
(***************************************************************************)
RoundHalfEven(n, d) ==
    LET q == n \div d
        r == n % d
    IN  IF 2 * r < d THEN q
        ELSE IF 2 * r > d THEN q + 1
        ELSE IF q % 2 = 0 THEN q ELSE q + 1

Tap(d, sn, sd, s) ==
    LET num == (2 * d + 1) * sn - sd
        den == 2 * sd
        f == num \div den
    IN  IF f < 0 THEN [lo |-> 0, w |-> 0, den |-> den]
        ELSE IF f >= s - 1 THEN [lo |-> s - 1, w |-> 0, den |-> den]
        ELSE [lo |-> f, w |-> num - f * den, den |-> den]

Bilinear(img, ty, tx) ==
    LET r0 == ty.lo + 1
        r1 == Min(ty.lo + 2, Rows(img))
        c0 == tx.lo + 1
        c1 == Min(tx.lo + 2, Cols(img))
        total == (ty.den - ty.w) * (tx.den - tx.w) * img[r0][c0]
                 + (ty.den - ty.w) * tx.w * img[r0][c1]
                 + ty.w * (tx.den - tx.w) * img[r1][c0]
                 + ty.w * tx.w * img[r1][c1]
    IN  RoundHalfEven(total, ty.den * tx.den)

\* cv2.resize(img, (dcols, drows)): the scale is source size / destination size.
ResizeTo(img, drows, dcols) ==
    MkRaster(drows, dcols,
             LAMBDA i, j : Bilinear(img, Tap(i - 1, Rows(img), drows, Rows(img)),
                                         Tap(j - 1, Cols(img), dcols, Cols(img))))

\* cv2.resize(img, (0, 0), fx=1/sigma, fy=1/sigma): the size is rounded, the
\* scale is sigma.
ResizeBy(img, sigma) ==
    MkRaster(RoundHalfEven(Rows(img), sigma), RoundHalfEven(Cols(img), sigma),
             LAMBDA i, j : Bilinear(img, Tap(i - 1, sigma, 1, Rows(img)),
                                         Tap(j - 1, sigma, 1, Cols(img))))

(***************************************************************************)
(* cv2.erode / cv2.dilate with a full square kernel of radius r and the    *)
(* default border: pixels outside the image do not take part.              *)
(***************************************************************************)
Window(img, i, j, r) ==
    {p \in ((i - r)..(i + r)) \X ((j - r)..(j + r)) :
        p[1] \in 1..Rows(img) /\ p[2] \in 1..Cols(img)}

Erode(img, r) ==
    MkRaster(Rows(img), Cols(img),
             LAMBDA i, j : IF \E p \in Window(img, i, j, r) : img[p[1]][p[2]] = 0
                           THEN 0 ELSE 1)

DilateOnce(img, r) ==
    MkRaster(Rows(img), Cols(img),
             LAMBDA i, j : SetMax({img[p[1]][p[2]] : p \in Window(img, i, j, r)}))

RECURSIVE Dilate(_, _, _)
Dilate(img, r, iterations) ==
    IF iterations = 0 THEN img
    ELSE With(DilateOnce(img, r), LAMBDA next : Dilate(next, r, iterations - 1))

(***************************************************************************)
(* Background.create_background_textures, the merge of the layer images:   *)
(* cv2.add of 8 bit images saturates.                                      *)
(***************************************************************************)
SatAddWrap(a, b) == (a + b) % (U8Max + 1)

SatAdd(a, b) == Min(U8Max, a + b)

CvAdd(x, y) == MkRaster(Rows(x), Cols(x), LAMBDA i, j : SatAdd(x[i][j], y[i][j]))

RECURSIVE MergeFrom(_, _, _)
MergeFrom(img, layers, k) ==
    IF k > Len(layers) THEN img
    ELSE With(CvAdd(img, layers[k]), LAMBDA sum : MergeFrom(sum, layers, k + 1))

MergeLayers(layers, size) == MergeFrom(MkRaster(size, size, LAMBDA i, j : 0), layers, 1)

(***************************************************************************)
(* Background.subtraction, the raster part: the water mask is eroded by    *)
(* one pixel and the depth is subtracted, in the 16 bit dtype of the DEM,  *)
(* where the eroded mask is set.                                           *)
(***************************************************************************)
WaterMask(water) ==
    MkRaster(Rows(water), Cols(water), LAMBDA i, j : IF water[i][j] = WATER THEN 1 ELSE 0)

ErodedMaskNoErosion(water) == WaterMask(water)

ErodedMask(water) == With(WaterMask(water), LAMBDA mask : Erode(mask, 1))

SubPixelSkipUnderflow(e, d) == IF d > e THEN e ELSE e - d

\* dem_image[mask] - water_depth, in uint16
SubPixel(e, d) == (e - d) % U16


SubtractDepth(dem, water, depth) ==
    With(ErodedMask(water),
         LAMBDA mask : MkRaster(Rows(dem), Cols(dem),
                                LAMBDA i, j : IF mask[i][j] = 1
                                              THEN SubPixel(dem[i][j], depth)
                                              ELSE dem[i][j]))

(***************************************************************************)
(* Background.plane_from_np up to the construction of the mesh: resize,    *)
(* optional removal of the centre, inversion of the heights, the grid of   *)
(* vertices and two faces per cell; a cell with a corner at ground level   *)
(* is skipped unless include_zeros.                                        *)
(***************************************************************************)
Invert(img) ==
    With(RasterMax(img),
         LAMBDA top : MkRaster(Rows(img), Cols(img), LAMBDA i, j : top - img[i][j]))

Prepared(dem, remove_center, sigma, map_size) ==
    LET half_size == (map_size \div 2) \div sigma
        Cut(resized) == IF remove_center THEN CutOutZeros(resized, half_size) ELSE resized
    IN  With(ResizeBy(dem, sigma),
             LAMBDA resized : With(Cut(resized), LAMBDA cut : Invert(cut)))

Vertices(z) ==
    [k \in 1..(Rows(z) * Cols(z)) |->
        LET i == (k - 1) \div Cols(z)
            j == (k - 1) % Cols(z)
        IN  <<j, i, z[i + 1][j + 1]>>]

CellSkippedTopLeftOnly(z, ground, include_zeros, i, j) ==
    /\ ground = z[i + 1][j + 1]
    /\ ~include_zeros

\* if ground in [z[i, j], z[i, j + 1], z[i + 1, j], z[i + 1, j + 1]] and not include_zeros
CellSkipped(z, ground, include_zeros, i, j) ==
    /\ ground \in {z[i + 1][j + 1], z[i + 1][j + 2], z[i + 2][j + 1], z[i + 2][j + 2]}
    /\ ~include_zeros

CellFacesOneTriangle(cols, i, j) ==
    LET top_left == i * cols + j
        bottom_left == top_left + cols
        bottom_right == bottom_left + 1
    IN  << <<top_left, bottom_left, bottom_right>> >>

CellFaces(cols, i, j) ==
    LET top_left == i * cols + j
        top_right == top_left + 1
        bottom_left == top_left + cols
        bottom_right == bottom_left + 1
    IN  << <<top_left, bottom_left, bottom_right>>, <<top_left, bottom_right, top_right>> >>

\* The faces of the cells lo .. hi - 1, counted row by row, in the order of
\* the two loops.
RECURSIVE FacesFrom(_, _, _, _, _)
FacesFrom(z, ground, include_zeros, lo, hi) ==
    IF hi <= lo THEN <<>>
    ELSE IF hi = lo + 1
    THEN LET i == lo \div (Cols(z) - 1)
             j == lo % (Cols(z) - 1)
         IN  IF CellSkipped(z, ground, include_zeros, i, j) THEN <<>>
             ELSE CellFaces(Cols(z), i, j)
    ELSE LET mid == (lo + hi) \div 2
         IN  FacesFrom(z, ground, include_zeros, lo, mid)
             \o FacesFrom(z, ground, include_zeros, mid, hi)

\* The mesh as built at trimesh.Trimesh(vertices, faces): the rotation, the
\* scaling and the decimation that follow are left to trimesh.
Triangulate(z, include_zeros) ==
    [exists |-> TRUE, rows |-> Rows(z), cols |-> Cols(z),
     vertices |-> Vertices(z),
     faces |-> With(RasterMax(z), LAMBDA ground : FacesFrom(z, ground, include_zeros, 0,
                                                (Rows(z) - 1) * (Cols(z) - 1)))]

PlaneFromNp(dem, include_zeros, remove_center, sigma, map_size) ==
    With(Prepared(dem, remove_center, sigma, map_size),
         LAMBDA z : Triangulate(z, include_zeros))

(***************************************************************************)
(* Background.generate_water_resources_obj, the two input rasters.         *)
(***************************************************************************)
PlaneWaterRaster(water) == Dilate(water, 2, 5)

WaterOnly(dem, water) ==
    MkRaster(Rows(dem), Cols(dem), LAMBDA i, j : IF water[i][j] = 0 THEN 0 ELSE dem[i][j])

PreferOriginal(background_dem, dilated) ==
    MkRaster(Rows(background_dem), Cols(background_dem),
             LAMBDA i, j : IF background_dem[i][j] > 0 THEN background_dem[i][j]
                           ELSE dilated[i][j])

ElevatedWaterRaster(dem, water) ==
    With(WaterOnly(dem, water),
         LAMBDA background_dem :
             With(Dilate(background_dem, 1, 10),
                  LAMBDA dilated : PreferOriginal(background_dem, dilated)))

(***************************************************************************)
(* Background.save_map_dem: the centre cutout, and its resize to           *)
(* map_size + 1 for the game DEM.                                          *)
(***************************************************************************)
MapCutout(dem, map_size) == CutOutReturn(dem, map_size \div 2)

MainDemNoResize(dem, map_size) == MapCutout(dem, map_size)

MainDem(dem, map_size) ==
    With(MapCutout(dem, map_size),
         LAMBDA cutout : ResizeTo(cutout, map_size + 1, map_size + 1))

(***************************************************************************)
(* Background.previews: the greyscale and the coloured preview of the game *)
(* DEM, the preview of the elevation raster at a quarter of its size, and  *)
(* the STL preview if one was written.  cv2.imread gives None for a file   *)
(* that is not there, and cvtColor / resize raise on None.                 *)
(***************************************************************************)
\* cv2.imread(path, cv2.IMREAD_GRAYSCALE) of a 16 bit image: the high byte.
To8Bit(img) == MkRaster(Rows(img), Cols(img), LAMBDA i, j : img[i][j] \div 256)

\* cv2.normalize(img, alpha=0, beta=255, NORM_MINMAX); a flat image gives 0.
Normalize(img) ==
    With(<<RasterMin(img), RasterMax(img)>>,
         LAMBDA range :
             MkRaster(Rows(img), Cols(img),
                      LAMBDA i, j : IF range[1] = range[2] THEN 0
                                    ELSE RoundHalfEven((img[i][j] - range[1]) * U8Max,
                                                       range[2] - range[1])))

\* GRAY2RGB repeats the sample in the three channels.
GrayscalePreview(dem) == To8Bit(dem)

\* applyColorMap gives one colour per sample: the image of colour indices.
ColoredPreview(dem) == With(To8Bit(dem), LAMBDA dem_data : Normalize(dem_data))

BackgroundDemPreview(full) == With(ResizeBy(full, 4), LAMBDA small : Normalize(small))

NoPreviews == [raised |-> FALSE, paths |-> <<>>, images |-> <<>>]

BackgroundPreviews(fs, stl_preview_path) ==
    IF fs.game_dem = NoFile
    THEN [raised |-> TRUE, paths |-> <<>>, images |-> <<>>]
    ELSE IF fs.full = NoFile
    THEN [raised |-> TRUE, paths |-> <<>>,
          images |-> <<GrayscalePreview(fs.game_dem), ColoredPreview(fs.game_dem)>>]
    ELSE [raised |-> FALSE,
          paths |-> <<"dem_grayscale.png", "dem_colored.png", "background_dem.png">>
                    \o (IF stl_preview_path THEN <<"background_dem.stl">> ELSE <<>>),
          images |-> <<GrayscalePreview(fs.game_dem), ColoredPreview(fs.game_dem),
                       BackgroundDemPreview(fs.full)>>]

(***************************************************************************)
(* The run: the game, the settings and the inputs.                         *)
(***************************************************************************)
GameComponents == <<"Texture", "Background", "I3d">>

\* background_size; the run is not rotated, so rotated_size is the same and
\* the elevation raster and the water mask have this side.
BackgroundSize == MapSize + BACKGROUND_DISTANCE * 2

\* Elevation rasters: a ramp of distinct values from 1, a flat one, and one
\* with zero samples.
DemRasters(n) ==
    { MkRaster(n, n, LAMBDA i, j : (i - 1) * n + j),
      MkRaster(n, n, LAMBDA i, j : 10),
      MkRaster(n, n, LAMBDA i, j : (i + j) % 3) }

\* Layer images of the classifier: water on the left, on the right, and in
\* the interior of the raster.
LayerImages(n) ==
    { MkRaster(n, n, LAMBDA i, j : IF j <= n \div 2 THEN WATER ELSE 0),
      MkRaster(n, n, LAMBDA i, j : IF j > n \div 2 THEN WATER ELSE 0),
      MkRaster(n, n, LAMBDA i, j : IF i \in 2..(n - 1) /\ j \in 2..(n - 1) THEN WATER ELSE 0) }

LayerLists(n) == UNION {[1..k -> LayerImages(n)] : k \in 0..MaxLayers}

TemplateDem == MkRaster(1, 1, LAMBDA i, j : 0)

Settings ==
    [water_depth : {0, 1, MaxDepth}, generate_background : BOOLEAN,
     generate_water : BOOLEAN, resize_factor : {1, MaxResize},
     schema : {"missing", "no_background", "background"}]

NoCall == [op |-> "none"]

Init ==
    /\ idx = 1
    /\ mpc = "construct"
    /\ components = <<>>
    /\ constructed = <<>>
    /\ processed = <<>>
    /\ log = <<>>
    /\ error = NoError
    /\ cfg \in Settings
    /\ \/ /\ custom_background = NoFile
          /\ dtm \in DemRasters(BackgroundSize)
       \/ /\ custom_background \in DemRasters(BackgroundSize) \cup DemRasters(BackgroundSize + 1)
          /\ dtm = NoFile
    /\ bpc = "idle"
    /\ background_paths = <<>>
    /\ water_resources_path = FALSE
    /\ dem_constructed = FALSE
    /\ files \in [full : {NoFile}, not_substracted : {NoFile}, not_resized : {NoFile},
                  game_dem : {NoFile, TemplateDem}, additional_dem : {NoFile},
                  water_resources : {NoFile}]
    /\ meshes = [terrain_obj |-> NoMesh, stl_preview |-> NoMesh,
                 plane_water_obj |-> NoMesh, elevated_water_obj |-> NoMesh]
    /\ fin = NoCall
    /\ fout = NoCall

(***************************************************************************)
(* Background.process: the order of its calls.                             *)
(***************************************************************************)
ProcessOrderCutoutFirst ==
    <<"create_background_textures", "dem_process", "copy_not_substracted",
      "save_not_resized", "save_map_dem", "subtraction", "make_copy",
      "generate_obj_files", "generate_water_resources_obj">>

ProcessOrderSubtractionFirst ==
    <<"create_background_textures", "dem_process", "subtraction",
      "copy_not_substracted", "save_not_resized", "save_map_dem", "make_copy",
      "generate_obj_files", "generate_water_resources_obj">>

ProcessOrder ==
    <<"create_background_textures", "dem_process", "copy_not_substracted",
      "save_not_resized", "subtraction", "save_map_dem", "make_copy",
      "generate_obj_files", "generate_water_resources_obj">>

StepIndex(step) == CHOOSE k \in 1..Len(ProcessOrder) : ProcessOrder[k] = step

StepAfter(step) ==
    IF StepIndex(step) = Len(ProcessOrder) THEN "returned"
    ELSE ProcessOrder[StepIndex(step) + 1]

(***************************************************************************)
(* Map.generate                                                            *)
(***************************************************************************)
Current == GameComponents[idx]

\* An exception leaving the constructor: outside the try, nothing is logged.
RaiseInConstruct(cls) ==
    /\ error' = [component |-> cls, phase |-> "construct"]
    /\ mpc' = "failed"
    /\ UNCHANGED <<idx, components, constructed, processed, log>>

RaiseInProcessNotLogged(cls) ==
    /\ error' = [component |-> cls, phase |-> "process"]
    /\ mpc' = "failed"
    /\ UNCHANGED <<idx, components, constructed, log>>

RaiseInProcessAppends(cls) ==
    /\ log' = Append(log, cls)
    /\ error' = [component |-> cls, phase |-> "process"]
    /\ mpc' = "failed"
    /\ components' = Append(components, cls)
    /\ UNCHANGED <<idx, constructed>>

\* except Exception as e: logger.error(...); raise e
RaiseInProcess(cls) ==
    /\ log' = Append(log, cls)
    /\ error' = [component |-> cls, phase |-> "process"]
    /\ mpc' = "failed"
    /\ UNCHANGED <<idx, components, constructed>>

\* validate_np_for_mesh: the raster is a square of the background size.
ValidNpForMesh(img, map_size) ==
    /\ Rows(img) = map_size + BACKGROUND_DISTANCE * 2
    /\ Cols(img) = map_size + BACKGROUND_DISTANCE * 2

PreprocessCopiesFirst ==
    /\ files' = IF custom_background # NoFile
                THEN [files EXCEPT !.full = custom_background]
                ELSE files
    /\ IF custom_background # NoFile /\ ~ValidNpForMesh(custom_background, MapSize)
       THEN /\ RaiseInConstruct("Background")
            /\ UNCHANGED <<bpc, background_paths, water_resources_path,
                           dem_constructed, meshes>>
       ELSE /\ water_resources_path' = FALSE
            /\ dem_constructed' = TRUE
            /\ constructed' = Append(constructed, "Background")
            /\ mpc' = "process"
            /\ bpc' = ProcessOrder[1]
            /\ UNCHANGED <<idx, components, processed, log, error, meshes,
                           background_paths>>

\* Background.preprocess, run by the constructor of the component.
Preprocess ==
    IF custom_background # NoFile /\ ~ValidNpForMesh(custom_background, MapSize)
    THEN /\ RaiseInConstruct("Background")
         /\ UNCHANGED <<bgVars>>
    ELSE /\ water_resources_path' = FALSE
         /\ files' = IF custom_background # NoFile
                     THEN [files EXCEPT !.full = custom_background]
                     ELSE files
         /\ dem_constructed' = TRUE
         /\ constructed' = Append(constructed, "Background")
         /\ mpc' = "process"
         /\ bpc' = ProcessOrder[1]
         /\ UNCHANGED <<idx, components, processed, log, error, meshes, background_paths>>

\* component = game_component(...)
Construct ==
    /\ mpc = "construct"
    /\ idx <= Len(GameComponents)
    /\ IF Current = "Background"
       THEN Preprocess
       ELSE /\ \/ /\ constructed' = Append(constructed, Current)
                  /\ mpc' = "process"
                  /\ UNCHANGED <<idx, components, processed, log, error>>
               \/ RaiseInConstruct(Current)
            /\ UNCHANGED <<bgVars>>
    /\ UNCHANGED <<inVars, fnVars>>

\* component.process() of a component other than Background
ProcessOther ==
    /\ mpc = "process"
    /\ Current # "Background"
    /\ \/ /\ processed' = Append(processed, Current)
          /\ mpc' = "append"
          /\ UNCHANGED <<idx, components, constructed, log, error>>
       \/ /\ processed' = Append(processed, Current)
          /\ RaiseInProcess(Current)
    /\ UNCHANGED <<bgVars, inVars, fnVars>>

\* self.components.append(component); pbar.update(1)
AppendComponent ==
    /\ mpc = "append"
    /\ components' = Append(components, Current)
    /\ idx' = idx + 1
    /\ mpc' = IF idx + 1 > Len(GameComponents) THEN "done" ELSE "construct"
    /\ UNCHANGED <<constructed, processed, log, error, bgVars, inVars, fnVars>>

(***************************************************************************)
(* Background.process, one action per call.  Reading a raster that is not  *)
(* on disk raises.                                                         *)
(***************************************************************************)
At(step) == mpc = "process" /\ Current = "Background" /\ bpc = step

Entered == IF bpc = ProcessOrder[1] THEN Append(processed, "Background") ELSE processed

Return(step) ==
    /\ bpc' = StepAfter(step)
    /\ mpc' = IF StepAfter(step) = "returned" THEN "append" ELSE mpc
    /\ processed' = Entered
    /\ UNCHANGED <<idx, components, constructed, log, error>>

Raise ==
    /\ bpc' = "raised"
    /\ processed' = Entered
    /\ RaiseInProcess("Background")

\* if self.map.dem_settings.water_depth:
DepthConfigured == cfg.water_depth # 0

\* if not self.water_resources_path: ... return
HasWaterResourcesAlways == TRUE

HasWaterResources == water_resources_path

\* if self.map.background_settings.generate_background:

BackgroundEnabled == cfg.generate_background

\* if self.map.background_settings.generate_water:
WaterEnabledAlways == TRUE

WaterEnabled == cfg.generate_water

CreateBackgroundTextures ==
    /\ At("create_background_textures")
    /\ IF cfg.schema # "background"
       THEN UNCHANGED <<files, water_resources_path, background_paths>>
       ELSE \E layers \in LayerLists(BackgroundSize) :
                /\ background_paths' = layers
                /\ IF Len(layers) = 0
                   THEN UNCHANGED <<files, water_resources_path>>
                   ELSE /\ files' = [files EXCEPT
                               !.water_resources = MergeLayers(layers, BackgroundSize)]
                        /\ water_resources_path' = TRUE
    /\ Return("create_background_textures")
    /\ UNCHANGED <<dem_constructed, meshes, inVars, fnVars>>

DemProcess ==
    /\ At("dem_process")
    /\ files' = IF custom_background = NoFile THEN [files EXCEPT !.full = dtm] ELSE files
    /\ Return("dem_process")
    /\ UNCHANGED <<background_paths, water_resources_path, dem_constructed, meshes, inVars, fnVars>>

CopyNotSubstracted ==
    /\ At("copy_not_substracted")
    /\ IF files.full = NoFile
       THEN Raise /\ UNCHANGED files
       ELSE /\ files' = [files EXCEPT !.not_substracted = files.full]
            /\ Return("copy_not_substracted")
    /\ UNCHANGED <<background_paths, water_resources_path, dem_constructed, meshes, inVars, fnVars>>

SaveNotResized ==
    /\ At("save_not_resized")
    /\ IF files.full = NoFile
       THEN Raise /\ UNCHANGED files
       ELSE /\ files' = [files EXCEPT !.not_resized = MapCutout(files.full, MapSize)]
            /\ Return("save_not_resized")
    /\ UNCHANGED <<background_paths, water_resources_path, dem_constructed, meshes, inVars, fnVars>>

Subtraction ==
    /\ At("subtraction")
    /\ IF DepthConfigured /\ HasWaterResources
       THEN IF files.water_resources = NoFile \/ files.full = NoFile
            THEN Raise /\ UNCHANGED files
            ELSE /\ files' = [files EXCEPT !.full =
                        SubtractDepth(files.full, files.water_resources, cfg.water_depth)]
                 /\ Return("subtraction")
       ELSE /\ UNCHANGED files
            /\ Return("subtraction")
    /\ UNCHANGED <<background_paths, water_resources_path, dem_constructed, meshes, inVars, fnVars>>

SaveMapDem ==
    /\ At("save_map_dem")
    /\ IF files.full = NoFile
       THEN Raise /\ UNCHANGED files
       ELSE /\ files' = [files EXCEPT !.game_dem = MainDem(files.full, MapSize)]
            /\ Return("save_map_dem")
    /\ UNCHANGED <<background_paths, water_resources_path, dem_constructed, meshes, inVars, fnVars>>

MakeCopy ==
    /\ At("make_copy")
    /\ \E additional_dem_name \in BOOLEAN :
          IF additional_dem_name
          THEN IF files.game_dem = NoFile
               THEN Raise /\ UNCHANGED files
               ELSE /\ files' = [files EXCEPT !.additional_dem = files.game_dem]
                    /\ Return("make_copy")
          ELSE /\ UNCHANGED files
               /\ Return("make_copy")
    /\ UNCHANGED <<background_paths, water_resources_path, dem_constructed, meshes, inVars, fnVars>>

GenerateObjFiles ==
    /\ At("generate_obj_files")
    /\ IF BackgroundEnabled /\ files.full # NoFile
       THEN \E remove_center \in BOOLEAN :
                meshes' = [meshes EXCEPT
                    !.terrain_obj = PlaneFromNp(files.full, FALSE, remove_center,
                                                cfg.resize_factor, MapSize),
                    !.stl_preview = [NoMesh EXCEPT !.exists = TRUE]]
       ELSE UNCHANGED meshes
    /\ Return("generate_obj_files")
    /\ UNCHANGED <<background_paths, water_resources_path, dem_constructed, files, inVars, fnVars>>

ElevatedWaterSourceAdjusted == files.full

\* background_dem = cv2.imread(self.not_substracted_path, cv2.IMREAD_UNCHANGED)
ElevatedWaterSource == files.not_substracted

GenerateWaterResourcesObj ==
    /\ At("generate_water_resources_obj")
    /\ IF WaterEnabled /\ HasWaterResources
       THEN IF files.water_resources = NoFile \/ ElevatedWaterSource = NoFile
            THEN Raise /\ UNCHANGED meshes
            ELSE /\ meshes' = [meshes EXCEPT
                        !.plane_water_obj =
                            PlaneFromNp(PlaneWaterRaster(files.water_resources),
                                        FALSE, FALSE, cfg.resize_factor, MapSize),
                        !.elevated_water_obj =
                            PlaneFromNp(ElevatedWaterRaster(ElevatedWaterSource,
                                                            files.water_resources),
                                        FALSE, FALSE, cfg.resize_factor, MapSize)]
                 /\ Return("generate_water_resources_obj")
       ELSE /\ UNCHANGED meshes
            /\ Return("generate_water_resources_obj")
    /\ UNCHANGED <<background_paths, water_resources_path, dem_constructed, files, inVars, fnVars>>

(***************************************************************************)
(* Map.previews, called once generate has ended: the previews of the       *)
(* components of self.components, in order.  An exception of a component   *)
(* leaves Map.previews.                                                    *)
(***************************************************************************)
\* Texture is not among these sources: its list of previews is one path.
\* I3d.previews returns the empty list.
ComponentPreviews(cls) ==
    CASE cls = "Background" -> BackgroundPreviews(files, meshes.stl_preview.exists)
      [] cls = "Texture" -> [NoPreviews EXCEPT !.paths = <<"textures.png">>]
      [] OTHER -> NoPreviews

RECURSIVE CollectPreviews(_, _)
CollectPreviews(comps, k) ==
    IF k > Len(comps) THEN NoPreviews
    ELSE LET head == ComponentPreviews(comps[k])
             rest == CollectPreviews(comps, k + 1)
         IN  IF head.raised THEN head
             ELSE [raised |-> rest.raised,
                   paths |-> IF rest.raised THEN <<>> ELSE head.paths \o rest.paths,
                   images |-> head.images \o rest.images]

MapPreviews ==
    /\ mpc \in {"done", "failed"}
    /\ fout = NoCall
    /\ fout' = [op |-> "previews"] @@ CollectPreviews(components, 1)
    /\ UNCHANGED <<mapVars, bgVars, inVars, fin>>

Next ==
    \/ Construct
    \/ ProcessOther
    \/ AppendComponent
    \/ CreateBackgroundTextures
    \/ DemProcess
    \/ CopyNotSubstracted
    \/ SaveNotResized
    \/ Subtraction
    \/ SaveMapDem
    \/ MakeCopy
    \/ GenerateObjFiles
    \/ GenerateWaterResourcesObj
    \/ MapPreviews

Spec == Init /\ [][Next]_vars

(***************************************************************************)
(* Direct calls of subtraction, of the merge of the layer images and of    *)
(* plane_from_np, on rasters that are uniform but for a few pixels.        *)
(***************************************************************************)
Idle ==
    /\ idx = 1
    /\ mpc = "idle"
    /\ components = <<>>
    /\ constructed = <<>>
    /\ processed = <<>>
    /\ log = <<>>
    /\ error = NoError
    /\ cfg = [water_depth |-> 0, generate_background |-> FALSE,
              generate_water |-> FALSE, resize_factor |-> 1, schema |-> "missing"]
    /\ custom_background = NoFile
    /\ dtm = NoFile
    /\ bpc = "idle"
    /\ background_paths = <<>>
    /\ water_resources_path = FALSE
    /\ dem_constructed = FALSE
    /\ files = [full |-> NoFile, not_substracted |-> NoFile, not_resized |-> NoFile,
                game_dem |-> NoFile, additional_dem |-> NoFile,
                water_resources |-> NoFile]
    /\ meshes = [terrain_obj |-> NoMesh, stl_preview |-> NoMesh,
                 plane_water_obj |-> NoMesh, elevated_water_obj |-> NoMesh]

Few(r, c) == {S \in SUBSET ((1..r) \X (1..c)) : Cardinality(S) <= MaxHoles}

\* The r x c rasters of value base but for a few pixels of value other.
Sparse(r, c, base, other) ==
    {MkRaster(r, c, LAMBDA i, j : IF <<i, j>> \in S THEN other ELSE base) : S \in Few(r, c)}

Ramp(r, c) == MkRaster(r, c, LAMBDA i, j : (i - 1) * c + j - 1)

Flat(r, c, v) == MkRaster(r, c, LAMBDA i, j : v)

\* ---- subtraction ----
SubtractionCalls ==
    UNION {[op : {"subtraction"},
            dem : {Ramp(r, c), Flat(r, c, 1000)},
            water : Sparse(r, c, WATER, 0) \cup Sparse(r, c, WATER, 128)
                    \cup {Flat(r, c, 0)},
            depth : (0..MaxDepth) \cup {50}] : r \in 1..MaxSide, c \in 1..MaxSide}

SubtractionInit ==
    /\ Idle
    /\ fin \in SubtractionCalls
    /\ fout = [n |-> 0, dem |-> fin.dem, before |-> fin.dem]

\* subtraction() on the raster at output_path, which it overwrites
CallSubtraction ==
    /\ fin.op = "subtraction"
    /\ fout.n < MaxCalls
    /\ fout' = [n |-> fout.n + 1,
                dem |-> SubtractDepth(fout.dem, fin.water, fin.depth),
                before |-> fout.dem]
    /\ UNCHANGED <<mapVars, bgVars, inVars, fin>>

SpecSubtraction == SubtractionInit /\ [][CallSubtraction]_vars

\* ---- merge of the layer images ----
MergePool(n) ==
    {Flat(n, n, 0), Flat(n, n, U8Max)}
    \cup {MkRaster(n, n, LAMBDA i, j : IF i = 1 /\ j = k THEN v ELSE 0) :
            k \in 1..n, v \in {100, U8Max}}

MergeInit ==
    /\ Idle
    /\ fin \in [op : {"merge"},
                layers : UNION {[1..k -> MergePool(BackgroundSize)] : k \in 1..MaxLayers}]
    /\ fout = [done |-> FALSE, image |-> NoFile]

CallMerge ==
    /\ fin.op = "merge"
    /\ ~fout.done
    /\ fout' = [done |-> TRUE, image |-> MergeLayers(fin.layers, BackgroundSize)]
    /\ UNCHANGED <<mapVars, bgVars, inVars, fin>>

SpecMerge == MergeInit /\ [][CallMerge]_vars

\* ---- plane_from_np ----
PlaneCalls ==
    UNION {[op : {"plane_from_np"},
            dem : Sparse(r, c, 5, 0) \cup Sparse(r, c, 0, 5) \cup Sparse(r, c, 5, 9)
                  \cup {Ramp(r, c)},
            include_zeros : BOOLEAN,
            remove_center : BOOLEAN,
            resize_factor : 1..MaxResize] : r \in 2..MaxSide, c \in 2..MaxSide}

PlaneInit ==
    /\ Idle
    /\ fin \in PlaneCalls
    /\ fout = NoMesh

CallPlaneFromNp ==
    /\ fin.op = "plane_from_np"
    /\ ~fout.exists
    /\ fout' = PlaneFromNp(fin.dem, fin.include_zeros, fin.remove_center,
                           fin.resize_factor, MapSize)
    /\ UNCHANGED <<mapVars, bgVars, inVars, fin>>

SpecMesh == PlaneInit /\ [][CallPlaneFromNp]_vars

\* ---- save_map_dem without save_path ----
MapSizes == 2..(MapSize + 2)

\* The n x n rasters of value 10 but for one pixel of value 1000.
Spikes(n) ==
    {MkRaster(n, n, LAMBDA i, j : IF <<i, j>> = p THEN 1000 ELSE 10) :
        p \in (1..n) \X (1..n)}

SaveMapDemCalls ==
    UNION {[op : {"save_map_dem"},
            map_size : {m},
            dem : DemRasters(m + BACKGROUND_DISTANCE * 2)
                  \cup Spikes(m + BACKGROUND_DISTANCE * 2),
            prior : {NoFile, TemplateDem}] : m \in MapSizes}

SaveMapDemInit ==
    /\ Idle
    /\ fin \in SaveMapDemCalls
    /\ fout = [done |-> FALSE, game_dem |-> fin.prior]

\* os.remove(main_dem_path), then the resized cutout is written there
CallSaveMapDem ==
    /\ fin.op = "save_map_dem"
    /\ ~fout.done
    /\ fout' = [done |-> TRUE, game_dem |-> MainDem(fin.dem, fin.map_size)]
    /\ UNCHANGED <<mapVars, bgVars, inVars, fin>>

SpecMainDem == SaveMapDemInit /\ [][CallSaveMapDem]_vars


\* ---- previews, on a map directory with or without the two rasters ----
PreviewsInit ==
    /\ idx = Len(GameComponents) + 1
    /\ mpc = "done"
    /\ components = GameComponents
    /\ constructed = GameComponents
    /\ processed = GameComponents
    /\ log = <<>>
    /\ error = NoError
    /\ cfg \in [water_depth : {0}, generate_background : BOOLEAN,
                 generate_water : {FALSE}, resize_factor : {1}, schema : {"missing"}]
    /\ custom_background = NoFile
    /\ dtm \in DemRasters(BackgroundSize) \cup Spikes(BackgroundSize)
    /\ bpc = "returned"
    /\ background_paths = <<>>
    /\ water_resources_path = FALSE
    /\ dem_constructed = TRUE
    /\ \E full_there \in BOOLEAN, game_dem_there \in BOOLEAN :
          files = [full |-> IF full_there THEN dtm ELSE NoFile,
                   not_substracted |-> dtm,
                   not_resized |-> MapCutout(dtm, MapSize),
                   game_dem |-> IF game_dem_there THEN MainDem(dtm, MapSize) ELSE NoFile,
                   additional_dem |-> NoFile,
                   water_resources |-> NoFile]
    /\ meshes = [terrain_obj |-> IF cfg.generate_background
                                 THEN PlaneFromNp(dtm, FALSE, FALSE, 1, MapSize)
                                 ELSE NoMesh,
                 stl_preview |-> [NoMesh EXCEPT !.exists = cfg.generate_background],
                 plane_water_obj |-> NoMesh, elevated_water_obj |-> NoMesh]
    /\ fin = NoCall
    /\ fout = NoCall

SpecPreviews == PreviewsInit /\ [][MapPreviews]_vars

\* ---- the water meshes, in a run of process on rasters wider than the ----
\* ---- reach of the ten dilations, from the return of dem.process on    ----
WaterBands(n) ==
    {MkRaster(n, n, LAMBDA i, j : IF j \in a..b THEN WATER ELSE 0) :
        a \in 1..2, b \in 1..n}

WaterInit ==
    /\ idx = 2
    /\ mpc = "process"
    /\ components = <<"Texture">>
    /\ constructed = <<"Texture", "Background">>
    /\ processed = <<"Texture", "Background">>
    /\ log = <<>>
    /\ error = NoError
    /\ cfg \in [water_depth : {0, 1, MaxDepth}, generate_background : {FALSE},
                 generate_water : {TRUE}, resize_factor : {1}, schema : {"background"}]
    /\ custom_background = NoFile
    /\ dtm \in DemRasters(LongSide)
    /\ bpc = "copy_not_substracted"
    /\ \E water \in WaterBands(LongSide) :
          /\ background_paths = <<water>>
          /\ files = [full |-> dtm, not_substracted |-> NoFile, not_resized |-> NoFile,
                      game_dem |-> NoFile, additional_dem |-> NoFile,
                      water_resources |-> water]
    /\ water_resources_path = TRUE
    /\ dem_constructed = TRUE
    /\ meshes = [terrain_obj |-> NoMesh, stl_preview |-> NoMesh,
                 plane_water_obj |-> NoMesh, elevated_water_obj |-> NoMesh]
    /\ fin = NoCall
    /\ fout = NoCall

WaterNext ==
    \/ CopyNotSubstracted
    \/ SaveNotResized
    \/ Subtraction
    \/ SaveMapDem
    \/ MakeCopy
    \/ GenerateObjFiles
    \/ GenerateWaterResourcesObj

SpecWater == WaterInit /\ [][WaterNext]_vars

(***************************************************************************)
(* Properties of Map.generate and Background.process                       *)
(***************************************************************************)
\* The elevation raster of the run: the user's raster, or the provider's.
Source == IF custom_background # NoFile THEN custom_background ELSE dtm

Prefix(n) == SubSeq(GameComponents, 1, n)

NoLaterComponent ==
    /\ error.component = GameComponents[idx]
    /\ components = Prefix(idx - 1)
    /\ constructed = Prefix(IF error.phase = "construct" THEN idx - 1 ELSE idx)
    /\ processed = Prefix(IF error.phase = "construct" THEN idx - 1 ELSE idx)

\* C1 as stated: whatever step of a component raises, construction or
\* process, generate ends with the error logged under the component's class
\* name and no later component is constructed or processed.
C1_LoggedWhateverStepRaises ==
    mpc = "failed" => log = <<error.component>> /\ NoLaterComponent

\* C1 amended: an exception of process() is logged with the class name of the
\* component and re-raised; an exception of the constructor (preprocess)
\* leaves generate unlogged; in both cases generate ends with that error and
\* no later component is constructed or processed.
C1_LoggedWhenProcessRaises ==
    /\ mpc = "failed" =>
          /\ error.phase \in {"construct", "process"}
          /\ error.phase = "process" => log = <<error.component>>
          /\ error.phase = "construct" => log = <<>>
          /\ NoLaterComponent
    /\ mpc # "failed" => log = <<>> /\ error = NoError

C1_Witness ==
    /\ mpc = "failed"
    /\ error.phase = "process"
    /\ idx < Len(GameComponents)
    /\ log = <<GameComponents[idx]>>

\* The number of calls of Background.process that have returned.
Stage ==
    CASE bpc = "idle" -> 0
      [] bpc = "create_background_textures" -> 0
      [] bpc = "dem_process" -> 1
      [] bpc = "copy_not_substracted" -> 2
      [] bpc = "save_not_resized" -> 3
      [] bpc = "subtraction" -> 4
      [] bpc = "save_map_dem" -> 5
      [] bpc = "make_copy" -> 6
      [] bpc = "generate_obj_files" -> 7
      [] bpc = "generate_water_resources_obj" -> 8
      [] bpc = "returned" -> 9
      [] OTHER -> 0 - 1

GameDemWritten == files.game_dem \notin {NoFile, TemplateDem}

\* C2 as stated: when the depth adjustment is about to run, the map-sized
\* raster has already been cropped and written to the game DEM path.
C2_GameDemBeforeDepth ==
    bpc = "subtraction" => GameDemWritten

\* C2 amended: the calls are, in order, the water mask, the elevation raster,
\* the two diagnostic copies, the optional depth adjustment, the cutout to
\* the game DEM path, the optional terrain mesh and the optional water
\* meshes: the game DEM is written after the depth adjustment and is the
\* resized centre of the adjusted raster.
C2_GameDemAfterDepth ==
    /\ Stage >= 0
    /\ files.water_resources # NoFile => Stage >= 1
    /\ (custom_background = NoFile /\ files.full # NoFile) => Stage >= 2
    /\ Stage >= 2 => files.full # NoFile
    /\ files.not_substracted # NoFile <=> Stage >= 3
    /\ files.not_resized # NoFile <=> Stage >= 4
    /\ (Stage >= 3 /\ files.full # files.not_substracted) => Stage >= 5
    /\ GameDemWritten <=> Stage >= 6
    /\ Stage >= 6 => files.game_dem = MainDem(files.full, MapSize)
    /\ meshes.terrain_obj.exists => Stage >= 8
    /\ (meshes.plane_water_obj.exists \/ meshes.elevated_water_obj.exists) => Stage >= 9

C2_Witness ==
    /\ bpc = "returned"
    /\ files.full # files.not_substracted
    /\ files.game_dem # MainDem(files.not_substracted, MapSize)
    /\ meshes.terrain_obj.exists
    /\ meshes.plane_water_obj.exists

\* C3: from the moment the depth subtraction is about to run, and to the end
\* of process, not_substracted.png is the elevation raster as acquired and
\* not_resized.png its centre cutout, whatever depth is subtracted.
C3_DiagnosticCopiesKeepSource ==
    Stage >= 4 =>
        /\ files.not_substracted = Source
        /\ files.not_resized = MapCutout(Source, MapSize)

C3_Witness ==
    /\ bpc = "returned"
    /\ cfg.water_depth # 0
    /\ files.full # Source
    /\ files.not_substracted = Source

\* C4: the elevation raster differs from the acquired one only if a depth is
\* configured and a water mask exists, and is then the acquired raster with
\* the depth subtracted; the terrain mesh exists exactly if generate_background
\* is set; the water meshes exist exactly if generate_water is set and a water
\* mask exists.
C4_OptionalStepsGated ==
    /\ (Stage >= 2 /\ files.full # Source) =>
          cfg.water_depth # 0 /\ water_resources_path /\ Stage >= 5
    /\ (Stage >= 5 /\ cfg.water_depth # 0 /\ water_resources_path) =>
          files.full = SubtractDepth(Source, files.water_resources, cfg.water_depth)
    /\ meshes.terrain_obj.exists => cfg.generate_background
    /\ meshes.plane_water_obj.exists => cfg.generate_water /\ water_resources_path
    /\ meshes.elevated_water_obj.exists => cfg.generate_water /\ water_resources_path
    /\ bpc = "returned" =>
          /\ meshes.terrain_obj.exists <=> cfg.generate_background
          /\ meshes.plane_water_obj.exists <=> (cfg.generate_water /\ water_resources_path)
          /\ meshes.elevated_water_obj.exists <=> meshes.plane_water_obj.exists

C4_Witness ==
    /\ bpc = "returned"
    /\ water_resources_path
    /\ ~cfg.generate_water
    /\ ~meshes.plane_water_obj.exists
    /\ cfg.generate_background
    /\ cfg.water_depth = 0
    /\ files.full = Source

\* C5: without a schema file, without a background layer in the schema, or
\* without a layer from the classifier, no water mask is written and
\* water_resources_path stays unset; the elevation raster is then never
\* changed, no water mesh is written, and process returns without raising,
\* with the cutouts written.
NoBackgroundLayers == cfg.schema # "background" \/ background_paths = <<>>

C5_NoWaterIsNoOp ==
    NoBackgroundLayers =>
        /\ ~water_resources_path
        /\ files.water_resources = NoFile
        /\ Stage >= 2 => files.full = Source
        /\ ~meshes.plane_water_obj.exists
        /\ ~meshes.elevated_water_obj.exists
        /\ bpc # "raised"
        /\ error # [component |-> "Background", phase |-> "process"]
        /\ bpc = "returned" =>
              /\ files.not_resized = MapCutout(Source, MapSize)
              /\ files.game_dem = MainDem(Source, MapSize)

C5_Witness ==
    /\ bpc = "returned"
    /\ cfg.schema = "background"
    /\ background_paths = <<>>
    /\ cfg.water_depth # 0
    /\ cfg.generate_water

\* C6: a user-supplied raster that is not a square of the background size is
\* rejected by preprocess before it is copied to full.png and before the DEM
\* is constructed: the run ends there, and no raster or mesh is written.
C6_WrongSizeAbortsBeforeArtifacts ==
    (custom_background # NoFile /\ Rows(custom_background) # BackgroundSize) =>
        /\ files.full = NoFile
        /\ ~dem_constructed
        /\ files.not_substracted = NoFile
        /\ files.not_resized = NoFile
        /\ files.water_resources = NoFile
        /\ files.additional_dem = NoFile
        /\ ~GameDemWritten
        /\ \A m \in DOMAIN meshes : ~meshes[m].exists
        /\ bpc = "idle"
        /\ idx <= 2
        /\ (idx = 2 /\ mpc # "construct") =>
              mpc = "failed" /\ error = [component |-> "Background", phase |-> "construct"]

C6_Witness ==
    /\ mpc = "failed"
    /\ error = [component |-> "Background", phase |-> "construct"]
    /\ custom_background # NoFile

(***************************************************************************)
(* Properties of subtraction                                               *)
(***************************************************************************)
\* The 3x3 neighbourhood of a pixel: complete and all water / all water as
\* far as it lies in the raster.
AllEightWater(water, i, j) ==
    \A di \in -1..1, dj \in -1..1 :
        /\ i + di \in 1..Rows(water)
        /\ j + dj \in 1..Cols(water)
        /\ water[i + di][j + dj] = WATER

AllInImageWater(water, i, j) ==
    \A di \in -1..1, dj \in -1..1 :
        (i + di \in 1..Rows(water) /\ j + dj \in 1..Cols(water))
            => water[i + di][j + dj] = WATER

\* C7: a pixel of the eroded mask with elevation e becomes e - d when d <= e
\* and 0 when d > e; no pixel is greater after the subtraction than before.
C7_ClampedNeverWraps ==
    fout.n >= 1 =>
        \A p \in Pixels(fout.dem) :
            LET e == fout.before[p[1]][p[2]]
                a == fout.dem[p[1]][p[2]]
            IN  /\ a <= e
                /\ AllInImageWater(fin.water, p[1], p[2]) =>
                      a = IF fin.depth <= e THEN e - fin.depth ELSE 0

\* C8 as stated: a pixel has the depth subtracted if and only if it and all
\* eight of its neighbours are water (255); every other pixel keeps its value.
C8_ChangedIffAllEightNeighboursWater ==
    fout.n >= 1 =>
        \A p \in Pixels(fout.dem) :
            fout.dem[p[1]][p[2]] =
                IF AllEightWater(fin.water, p[1], p[2])
                THEN SubPixel(fout.before[p[1]][p[2]], fin.depth)
                ELSE fout.before[p[1]][p[2]]

\* C8 amended: a pixel has the depth subtracted if and only if it and all of
\* its neighbours that lie inside the raster are water (255): a pixel on the
\* edge of the raster needs only its existing neighbours.  Every other pixel
\* keeps its value.
C8_ChangedIffNeighboursInImageWater ==
    fout.n >= 1 =>
        \A p \in Pixels(fout.dem) :
            fout.dem[p[1]][p[2]] =
                IF AllInImageWater(fin.water, p[1], p[2])
                THEN SubPixel(fout.before[p[1]][p[2]], fin.depth)
                ELSE fout.before[p[1]][p[2]]

C8_Witness ==
    /\ fout.n = 1
    /\ fin.depth = 50
    /\ \E p \in Pixels(fin.dem) :
          /\ p[1] = 1
          /\ fin.dem[p[1]][p[2]] = 1000
          /\ fout.dem[p[1]][p[2]] = 950
    /\ \E q \in Pixels(fin.dem) :
          /\ fin.water[q[1]][q[2]] = WATER
          /\ fout.dem[q[1]][q[2]] = 1000

(***************************************************************************)
(* Properties of the merge of the layer images                             *)
(***************************************************************************)
RECURSIVE SumAt(_, _, _, _)
SumAt(layers, i, j, k) ==
    IF k > Len(layers) THEN 0 ELSE layers[k][i][j] + SumAt(layers, i, j, k + 1)

Marked(img) == Cardinality({p \in Pixels(img) : img[p[1]][p[2]] # 0})

Disjoint(a, b) == \A p \in Pixels(a) : a[p[1]][p[2]] = 0 \/ b[p[1]][p[2]] = 0

\* C9: every pixel of the water mask is min(255, sum of the layers at that
\* pixel); for two layers without a common marked pixel the mask has as many
\* marked pixels as the two layers together.
C9_MergeSaturates ==
    fout.done =>
        /\ \A p \in Pixels(fout.image) :
              fout.image[p[1]][p[2]] = Min(255, SumAt(fin.layers, p[1], p[2], 1))
        /\ (Len(fin.layers) = 2 /\ Disjoint(fin.layers[1], fin.layers[2])) =>
              Marked(fout.image) = Marked(fin.layers[1]) + Marked(fin.layers[2])

C9_Witness ==
    /\ fout.done
    /\ Len(fin.layers) = 2
    /\ \E p \in Pixels(fout.image) :
          /\ fin.layers[1][p[1]][p[2]] + fin.layers[2][p[1]][p[2]] > 255
          /\ fout.image[p[1]][p[2]] = 255
    /\ \E q \in Pixels(fout.image) :
          /\ fin.layers[1][q[1]][q[2]] = 0
          /\ fin.layers[2][q[1]][q[2]] # 0

(***************************************************************************)
(* Properties of plane_from_np                                             *)
(***************************************************************************)
\* C10: with include_zeros, the R x C raster that is triangulated (the input
\* after the resize by 1 / resize_factor; the input itself for factor 1)
\* gives R*C vertices and 2*(R-1)*(C-1) faces, two for every grid cell,
\* whatever its values.
C10_FullGridFaceCount ==
    (fout.exists /\ fin.include_zeros) =>
        /\ fout.rows = RoundHalfEven(Rows(fin.dem), fin.resize_factor)
        /\ fout.cols = RoundHalfEven(Cols(fin.dem), fin.resize_factor)
        /\ (fout.rows >= 2 /\ fout.cols >= 2) =>
              /\ Len(fout.vertices) = fout.rows * fout.cols
              /\ Len(fout.faces) = 2 * (fout.rows - 1) * (fout.cols - 1)
              /\ \A i \in 0..(fout.rows - 2), j \in 0..(fout.cols - 2) :
                    Cardinality({k \in 1..Len(fout.faces) :
                                    fout.faces[k][1] = i * fout.cols + j}) = 2

C10_Witness ==
    /\ fout.exists
    /\ fin.include_zeros
    /\ fin.dem = Flat(3, 3, 5)
    /\ Len(fout.vertices) = 9
    /\ Len(fout.faces) = 8

\* The greatest height of the vertices of a mesh (the heights are inverted:
\* this is the lowest sample of the raster), and the four corners of a cell.
MeshGround(mesh) == SetMax({mesh.vertices[k][3] : k \in 1..Len(mesh.vertices)})

CellCorners(cols, i, j) ==
    {i * cols + j, i * cols + j + 1, (i + 1) * cols + j, (i + 1) * cols + j + 1}

FacesOfCell(mesh, i, j) ==
    {k \in 1..Len(mesh.faces) : mesh.faces[k][1] = i * mesh.cols + j}

\* C11: without include_zeros, no face has a vertex whose inverted height is
\* the maximum of the inverted raster: a cell with at least one such corner
\* gives no face, every other cell gives exactly two.
C11_NoFaceTouchesGround ==
    (fout.exists /\ ~fin.include_zeros) =>
        /\ \A k \in 1..Len(fout.faces) : \A n \in 1..3 :
              fout.vertices[fout.faces[k][n] + 1][3] # MeshGround(fout)
        /\ \A i \in 0..(fout.rows - 2), j \in 0..(fout.cols - 2) :
              Cardinality(FacesOfCell(fout, i, j)) =
                  IF \E v \in CellCorners(fout.cols, i, j) :
                        fout.vertices[v + 1][3] = MeshGround(fout)
                  THEN 0 ELSE 2

C11_Witness ==
    /\ fout.exists
    /\ ~fin.include_zeros
    /\ fout.rows = 3
    /\ fout.cols = 3
    /\ Len(fout.faces) = 4
    /\ FacesOfCell(fout, 0, 0) = {}
    /\ FacesOfCell(fout, 1, 1) = {}

(***************************************************************************)
(* Properties of save_map_dem                                              *)
(***************************************************************************)
\* The square of side 2 * half_size around the centre pixel of a raster.
Centre(img, half_size) ==
    MkRaster(2 * half_size, 2 * half_size,
             LAMBDA i, j : img[(Rows(img) \div 2) - half_size + i]
                              [(Cols(img) \div 2) - half_size + j])

\* C12: the raster that save_map_dem writes at the game DEM path has
\* map_size + 1 rows and columns, for even and for odd map_size; it is the
\* centred square of half-size map_size // 2 of the elevation raster, resized
\* (its corner samples are those of the square, every sample lies between the
\* least and the greatest of the square); and the file that was at that path
\* before is gone.
C12_MainDemSizeAndSource ==
    fout.done =>
        LET m == fin.map_size
            cut == Centre(fin.dem, m \div 2)
            out == fout.game_dem
        IN  /\ Rows(out) = m + 1
            /\ Cols(out) = m + 1
            /\ out = ResizeTo(cut, m + 1, m + 1)
            /\ out[1][1] = cut[1][1]
            /\ out[1][m + 1] = cut[1][Cols(cut)]
            /\ out[m + 1][1] = cut[Rows(cut)][1]
            /\ out[m + 1][m + 1] = cut[Rows(cut)][Cols(cut)]
            /\ \A p \in Pixels(out) :
                  /\ out[p[1]][p[2]] >= RasterMin(cut)
                  /\ out[p[1]][p[2]] <= RasterMax(cut)
            /\ out # fin.prior

C12_Witness ==
    /\ fout.done
    /\ fin.map_size = 3
    /\ fin.prior = TemplateDem
    /\ Rows(fout.game_dem) = 4
    /\ fout.game_dem[1][1] = 1000
    /\ fout.game_dem[4][4] = 10

(***************************************************************************)
(* Properties of the previews                                              *)
(***************************************************************************)
InSeq(x, seq) == \E k \in 1..Len(seq) : seq[k] = x

\* C13: when the elevation raster or the game DEM is not there at the call of
\* previews, no exception is raised, the previews of the raster that is
\* missing are left out, and the others are returned.
C13_MissingRastersSkipped ==
    (fout.op = "previews" /\ (files.full = NoFile \/ files.game_dem = NoFile)) =>
        /\ ~fout.raised
        /\ InSeq("textures.png", fout.paths)
        /\ InSeq("dem_grayscale.png", fout.paths) <=> files.game_dem # NoFile
        /\ InSeq("dem_colored.png", fout.paths) <=> files.game_dem # NoFile
        /\ InSeq("background_dem.png", fout.paths) <=> files.full # NoFile
        /\ InSeq("background_dem.stl", fout.paths) <=> meshes.stl_preview.exists

AllButLast(seq) == SubSeq(seq, 1, Len(seq) - 1)

\* The process call of the last component of processed has not returned.
InProcess ==
    \/ mpc = "process" /\ Len(processed) = idx
    \/ mpc = "failed" /\ error.phase = "process"

\* The components whose process call has returned.
Returned == IF InProcess THEN AllButLast(processed) ELSE processed

\* C17: at every point of generate, and when it has ended with or without an
\* error, components is the sequence of the components whose process call has
\* returned, a prefix of game.components (the component whose process has
\* just returned is appended in the same iteration, before anything else
\* runs); a component whose process raised is not in it; previews returns
\* the previews of these components, in this order, and of no other.
C17_ComponentsAreReturnedPrefix ==
    /\ Returned = Prefix(Len(Returned))
    /\ components = IF mpc = "append" THEN AllButLast(Returned) ELSE Returned
    /\ (mpc = "failed" /\ error.phase = "process") =>
          ~InSeq(error.component, components)
    /\ fout.op = "previews" =>
          /\ ~fout.raised
          /\ fout.paths =
                (IF InSeq("Texture", components) THEN <<"textures.png">> ELSE <<>>)
                \o (IF InSeq("Background", components)
                    THEN <<"dem_grayscale.png", "dem_colored.png", "background_dem.png">>
                         \o (IF cfg.generate_background THEN <<"background_dem.stl">>
                             ELSE <<>>)
                    ELSE <<>>)

C17_Witness ==
    /\ mpc = "failed"
    /\ error = [component |-> "I3d", phase |-> "process"]
    /\ components = <<"Texture", "Background">>
    /\ fout.op = "previews"
    /\ Len(fout.paths) = 5

(***************************************************************************)
(* Properties of repeated subtraction                                      *)
(***************************************************************************)
\* C14: two subtractions of depth D give, at every pixel whose elevation is at
\* least 2D (no underflow), the raster of one subtraction of depth 2D; at a
\* pixel below 2D the elevation after the two is not lower than after the one.
C14_TwiceIsOnceDoubled ==
    fout.n = 2 =>
        LET once == SubtractDepth(fin.dem, fin.water, 2 * fin.depth)
        IN  \A p \in Pixels(fin.dem) :
                LET e == fin.dem[p[1]][p[2]]
                    twice == fout.dem[p[1]][p[2]]
                IN  /\ 2 * fin.depth <= e => twice = once[p[1]][p[2]]
                    /\ 2 * fin.depth <= e =>
                          twice = IF AllInImageWater(fin.water, p[1], p[2])
                                  THEN e - 2 * fin.depth ELSE e
                    /\ 2 * fin.depth > e => twice >= once[p[1]][p[2]]

C14_Witness ==
    /\ fout.n = 2
    /\ fin.depth = MaxDepth
    /\ \E p \in Pixels(fin.dem) :
          /\ fin.dem[p[1]][p[2]] >= 2 * fin.depth
          /\ fout.dem[p[1]][p[2]] = fin.dem[p[1]][p[2]] - 2 * fin.depth
    /\ \E q \in Pixels(fin.dem) :
          /\ fin.dem[q[1]][q[2]] < 2 * fin.depth
          /\ fin.dem[q[1]][q[2]] >= fin.depth
          /\ fout.dem[q[1]][q[2]] # fin.dem[q[1]][q[2]]

(***************************************************************************)
(* Properties of the skipped cells                                         *)
(***************************************************************************)
\* The raster of a call of plane_from_np as it is when it is inverted: resized,
\* and with the centre set to zero if remove_center.
BeforeInversion(call) ==
    LET resized == ResizeBy(call.dem, call.resize_factor)
    IN  IF call.remove_center
        THEN CutOutZeros(resized, (MapSize \div 2) \div call.resize_factor)
        ELSE resized

\* C15: without include_zeros, the cells without faces are exactly the cells
\* with a corner whose elevation is zero before the inversion: a raster
\* without a zero sample keeps every cell, also the cells at its lowest sample.
C15_SkippedIffZeroCorner ==
    (fout.exists /\ ~fin.include_zeros) =>
        LET data == BeforeInversion(fin)
        IN  \A i \in 0..(fout.rows - 2), j \in 0..(fout.cols - 2) :
                FacesOfCell(fout, i, j) = {}
                    <=> 0 \in {data[i + 1][j + 1], data[i + 1][j + 2],
                               data[i + 2][j + 1], data[i + 2][j + 2]}

(***************************************************************************)
(* Properties of the raster of the elevated water mesh                     *)
(***************************************************************************)
\* The water pixels within Chebyshev distance d of (i, j).
WaterNear(water, i, j, d) ==
    {q \in Pixels(water) :
        /\ q[1] \in (i - d)..(i + d)
        /\ q[2] \in (j - d)..(j + d)
        /\ water[q[1]][q[2]] # 0}

\* A water pixel of non-zero elevation keeps it; every other pixel gets the
\* greatest elevation of the water within distance 10, or 0.
ExpectedElevated(src, water) ==
    MkRaster(Rows(src), Cols(src),
             LAMBDA i, j :
                 IF water[i][j] # 0 /\ src[i][j] # 0 THEN src[i][j]
                 ELSE SetMax({src[q[1]][q[2]] : q \in WaterNear(water, i, j, 10)}))

\* C16: the raster of the elevated water mesh is made from the elevation
\* raster as acquired (not_substracted.png), whatever depth was subtracted
\* from full.png before: zero where the water mask is zero, then every pixel
\* that is non-zero keeps its value and every zero pixel gets the greatest
\* water elevation within Chebyshev distance 10, or 0.  The mesh holds the
\* raster inverted: height = greatest sample - sample.
C16_ElevatedWaterFromUnadjusted ==
    meshes.elevated_water_obj.exists =>
        /\ files.not_substracted = dtm
        /\ With(ExpectedElevated(dtm, files.water_resources),
                LAMBDA expected :
                    With(RasterMax(expected),
                         LAMBDA top :
                             /\ meshes.elevated_water_obj.rows = Rows(dtm)
                             /\ meshes.elevated_water_obj.cols = Cols(dtm)
                             /\ \A p \in Pixels(dtm) :
                                   meshes.elevated_water_obj.vertices
                                       [(p[1] - 1) * Cols(dtm) + p[2]]
                                     = <<p[2] - 1, p[1] - 1, top - expected[p[1]][p[2]]>>))

C16_Witness ==
    /\ meshes.elevated_water_obj.exists
    /\ cfg.water_depth # 0
    /\ files.full # files.not_substracted
    /\ files.water_resources[1][3] = 0
    /\ dtm[1][LongSide] # 0
    /\ meshes.elevated_water_obj.vertices[LongSide][3]
          = MeshGround(meshes.elevated_water_obj)
    /\ meshes.elevated_water_obj.vertices[LongSide - 1][3]
          < MeshGround(meshes.elevated_water_obj)
    /\ meshes.elevated_water_obj.faces # <<>>

====
